---- MODULE Spec2Model ----
(***************************************************************************)
(* Model of micrograd-rs: the scalar computation graph (src/src/engine.rs) *)
(* and the neuron / layer / MLP composition built on it (src/src/nn.rs).   *)
(*                                                                         *)
(* Nodes live in an arena: the sequence `nodes`.  The identity of a node   *)
(* (Arc::ptr_eq in the source) is its index in the arena; 0 stands for an  *)
(* absent child (None).  f32 data and gradients are abstracted to          *)
(* integers; all arithmetic the model performs is exact.                   *)
(***************************************************************************)
EXTENDS Integers, Sequences, FiniteSets, TLC

\* ------------------------------------------------------------------ bounds
MaxNodes == 3          \* nodes in the arena (differentiation spec)
MaxTraceNodes == 5     \* nodes in the arena (graph building and trace spec)
MaxFrameNodes == 2     \* nodes in the arena (whole-interface spec)
MaxData == 40          \* largest |data| of a node the model builds (f32 range)
LeafData == {2, 3}     \* data given to Scalar::new / set_data
PowExps == {2, 3}      \* exponents given to powi
MaxLayers == 3         \* length of the nouts given to MLP::new
RngPeriod == 2         \* period of the modelled random source
Widths == {0, 1, 4}    \* layer widths given to MLP::new
Nins == {1, 3}         \* input widths given to MLP::new
InLens == 0..4         \* lengths of the input vectors given to output

VARIABLES
    nodes,     \* the arena: Seq of Value records
    last,      \* the call that was executed last and its operands / result
    order,     \* if the last call was backward: the nodes cal_grad ran on, in order
    tr,        \* if the last call was trace: its result [nodes, edges]
    residue,   \* if the last call was backward: did its reset loop overwrite a non-zero grad
    cap,       \* arena capacity of the behaviour (bounds the model only)
    mlp,       \* the network: MLP::new's arguments and the layers it built
    rng,       \* state of the random source the weights are drawn from
    ret,       \* what the last nn call returned, and how many Values it allocated
    mutex,     \* per node of the arena: the Mutex around its Value (owner, poisoned)
    thr        \* per thread: the call it is executing, its position and its locals

vars == <<nodes, last, order, tr, residue, cap, mlp, rng, ret, mutex, thr>>

\* ------------------------------------------------------------ pure helpers
RECURSIVE Pow(_, _)
Pow(x, n) == IF n <= 0 THEN 1 ELSE x * Pow(x, n - 1)

\* f32::tanh on the integer grid: tanh(0) = 0, |tanh(x)| rounds to 1 otherwise
TanhF(x) == IF x = 0 THEN 0 ELSE IF x > 0 THEN 1 ELSE -1

ValueNew(data) ==
    [data |-> data, c1 |-> 0, c2 |-> 0, op |-> "NONE", exp |-> 0, grad |-> 0]

\* a Value with children and op filled in, as every operator builds it
Output(data, c1, c2, op, exp) ==
    [data |-> data, c1 |-> c1, c2 |-> c2, op |-> op, exp |-> exp, grad |-> 0]

Ids(ns) == 1..Len(ns)

Range(seq) == {seq[j] : j \in 1..Len(seq)}

NoCall == [op |-> "none", a |-> 0, b |-> 0, out |-> 0]
NoTrace == [nodes |-> <<>>, edges |-> <<>>]
NoMLP == [built |-> FALSE, nin |-> 0, nouts |-> <<>>, layers |-> <<>>]
NoRet == [err |-> FALSE, res |-> <<>>, made |-> 0, input |-> <<>>]

\* -------------------------------------------------------------- traversal
\* Scalar::traverse: breadth-first frontier with a scan pointer, no dedup.
RECURSIVE TraverseFrom(_, _, _)
TraverseFrom(ns, list, pointer) ==
    IF Len(list) > pointer
    THEN LET n == ns[list[pointer + 1]]
             pushed == IF n.c1 # 0 /\ n.c2 # 0 THEN <<n.c1, n.c2>>
                       ELSE IF n.c1 # 0 THEN <<n.c1>>
                       ELSE IF n.c2 # 0 THEN <<n.c2>>
                       ELSE <<>>
         IN TraverseFrom(ns, list \o pushed, pointer + 1)
    ELSE list

Traverse(ns, root) == TraverseFrom(ns, <<root>>, 0)

FindNothing(list, c) == -1

\* nodes.iter().enumerate().find(ptr_eq): 0-based index of c in list, or -1
Find(list, c) ==
    IF \E j \in 1..Len(list) : list[j] = c
    THEN (CHOOSE j \in 1..Len(list) :
              list[j] = c /\ \A k \in 1..(j - 1) : list[k] # c) - 1
    ELSE -1

TraceChildReversed(t, c, pointer) ==
    LET i == Find(t.nodes, c)
    IN IF i >= 0
       THEN [nodes |-> t.nodes, edges |-> Append(t.edges, <<pointer, i>>)]
       ELSE [nodes |-> Append(t.nodes, c),
             edges |-> Append(t.edges, <<pointer, Len(t.nodes)>>)]

\* one child of the node at `pointer`: reuse the index found or push the child
TraceChild(t, c, pointer) ==
    LET i == Find(t.nodes, c)
    IN IF i >= 0
       THEN [nodes |-> t.nodes, edges |-> Append(t.edges, <<i, pointer>>)]
       ELSE [nodes |-> Append(t.nodes, c),
             edges |-> Append(t.edges, <<Len(t.nodes), pointer>>)]

\* both children are the same node: one lookup, two edges
TraceTwin(t, c, pointer) ==
    LET i == Find(t.nodes, c)
    IN IF i >= 0
       THEN [nodes |-> t.nodes,
             edges |-> t.edges \o <<(<<i, pointer>>), (<<i, pointer>>)>>]
       ELSE [nodes |-> Append(t.nodes, c),
             edges |-> t.edges \o <<(<<Len(t.nodes), pointer>>),
                                    (<<Len(t.nodes), pointer>>)>>]

\* Scalar::trace: the same walk with identity dedup and an edge list
RECURSIVE TraceFrom(_, _, _)
TraceFrom(ns, t, pointer) ==
    IF Len(t.nodes) > pointer
    THEN LET n == ns[t.nodes[pointer + 1]]
             t2 == IF n.c1 # 0 /\ n.c2 # 0
                   THEN IF n.c1 = n.c2
                        THEN TraceTwin(t, n.c1, pointer)
                        ELSE TraceChild(TraceChild(t, n.c1, pointer), n.c2, pointer)
                   ELSE IF n.c1 # 0 THEN TraceChild(t, n.c1, pointer)
                   ELSE IF n.c2 # 0 THEN TraceChild(t, n.c2, pointer)
                   ELSE t
         IN TraceFrom(ns, t2, pointer + 1)
    ELSE t

Trace(ns, root) == TraceFrom(ns, [nodes |-> <<root>>, edges |-> <<>>], 0)

\* -------------------------------------------------------- differentiation
AddGrad(ns, c, d) == [ns EXCEPT ![c].grad = @ + d]

\* cal_grad, Op::ADD: both children receive value.grad
GradAdd(ns, i) ==
    LET value == ns[i]
    IN AddGrad(AddGrad(ns, value.c1, value.grad), value.c2, value.grad)

\* cal_grad, Op::SUB: the right child receives -value.grad
GradSub(ns, i) ==
    LET value == ns[i]
    IN AddGrad(AddGrad(ns, value.c1, value.grad), value.c2, -value.grad)

GradMulSwapped(ns, i) ==
    LET value == ns[i]
        v1_data == ns[value.c1].data
        ns2 == AddGrad(ns, value.c2, ns[value.c2].data * value.grad)
    IN AddGrad(ns2, value.c1, v1_data * value.grad)

\* cal_grad, Op::MUL: each child receives the other child's data * value.grad
GradMul(ns, i) ==
    LET value == ns[i]
        v1_data == ns[value.c1].data
        ns2 == AddGrad(ns, value.c2, v1_data * value.grad)
        v2_data == ns2[value.c2].data
    IN AddGrad(ns2, value.c1, v2_data * value.grad)

GradPowiOwnData(ns, i) ==
    LET value == ns[i]
    IN AddGrad(ns, value.c1,
               (value.exp * Pow(value.data, value.exp - 1)) * value.grad)

\* cal_grad, Op::POWI(n): the child receives n * data^(n-1) * value.grad
GradPowi(ns, i) ==
    LET value == ns[i]
    IN AddGrad(ns, value.c1,
               (value.exp * Pow(ns[value.c1].data, value.exp - 1)) * value.grad)

\* cal_grad, Op::TANH: the child receives (1 - value.data^2) * value.grad
GradTanh(ns, i) ==
    LET value == ns[i]
    IN AddGrad(ns, value.c1, (1 - Pow(value.data, 2)) * value.grad)

\* Scalar::cal_grad: the local gradient rule of node i, added into its children
CalGrad(ns, i) ==
    LET value == ns[i]
        two == value.c1 # 0 /\ value.c2 # 0
        one == value.c1 # 0 /\ value.c2 = 0
    IN CASE value.op = "ADD" -> IF two THEN GradAdd(ns, i) ELSE ns
         [] value.op = "SUB" -> IF two THEN GradSub(ns, i) ELSE ns
         [] value.op = "MUL" -> IF two THEN GradMul(ns, i) ELSE ns
         [] value.op = "POWI" -> IF one THEN GradPowi(ns, i) ELSE ns
         [] value.op = "TANH" -> IF one THEN GradTanh(ns, i) ELSE ns
         [] OTHER -> ns

ResetGradsRootOnly(ns, scalars) ==
    IF scalars = <<>> THEN ns ELSE [ns EXCEPT ![Head(scalars)].grad = 0]

\* first loop of backward: grad = 0 on every element of scalars
RECURSIVE ResetGrads(_, _)
ResetGrads(ns, scalars) ==
    IF scalars = <<>> THEN ns
    ELSE ResetGrads([ns EXCEPT ![Head(scalars)].grad = 0], Tail(scalars))

\* second loop of backward: cal_grad on every element of scalars, in order
RECURSIVE Propagate(_, _)
Propagate(ns, scalars) ==
    IF scalars = <<>> THEN ns
    ELSE Propagate(CalGrad(ns, Head(scalars)), Tail(scalars))

\* the list backward walks
BackwardOrder(ns, root) == Traverse(ns, root)

\* Scalar::backward, after scalars = self.traverse()
BackwardOn(ns, root, scalars) ==
    LET zeroed == ResetGrads(ns, scalars)
        seeded == [zeroed EXCEPT ![root].grad = 1]
    IN Propagate(seeded, scalars)

\* Scalar::backward
BackwardGrads(ns, root) == BackwardOn(ns, root, BackwardOrder(ns, root))

\* -------------------------------------------------------------- operators
\* the Value each operator allocates for operands a (and b) of arena ns
AddOf(ns, a, b) == Output(ns[a].data + ns[b].data, a, b, "ADD", 0)

AddAssignOf(ns, a, b) == Output(ns[a].data + ns[b].data, a, b, "ADD", 0)

SubOfSwapped(ns, a, b) == Output(ns[a].data - ns[b].data, b, a, "SUB", 0)

SubOf(ns, a, b) == Output(ns[a].data - ns[b].data, a, b, "SUB", 0)

MulOf(ns, a, b) == Output(ns[a].data * ns[b].data, a, b, "MUL", 0)

PowiOf(ns, a, n) == Output(Pow(ns[a].data, n), a, 0, "POWI", n)

TanhOf(ns, a) == Output(TanhF(ns[a].data), a, 0, "TANH", 0)

\* ---------------------------------------------------------------- actions
Init ==
    /\ nodes = <<>>
    /\ last = NoCall
    /\ order = <<>>
    /\ tr = NoTrace
    /\ residue = FALSE
    /\ cap = MaxNodes
    /\ mlp = NoMLP
    /\ rng = 0
    /\ mutex = <<>>
    /\ thr = <<>>
    /\ ret = NoRet

Push(v, call) ==
    /\ -MaxData <= v.data /\ v.data <= MaxData
    /\ nodes' = Append(nodes, v)
    /\ last' = [call EXCEPT !.out = Len(nodes) + 1]
    /\ order' = <<>>
    /\ tr' = NoTrace
    /\ residue' = FALSE
    /\ UNCHANGED <<cap, mlp, rng, ret, mutex, thr>>

\* Scalar::new
New(d) ==
    /\ Len(nodes) < cap
    /\ Push(ValueNew(d), [NoCall EXCEPT !.op = "new"])

\* impl Add for Scalar
Add(a, b) ==
    /\ Len(nodes) < cap
    /\ Push(AddOf(nodes, a, b), [op |-> "add", a |-> a, b |-> b, out |-> 0])

\* impl AddAssign for Scalar: the handle that named a now names the new node
AddAssign(a, b) ==
    /\ Len(nodes) < cap
    /\ Push(AddAssignOf(nodes, a, b),
            [op |-> "add_assign", a |-> a, b |-> b, out |-> 0])

\* impl Sub for Scalar
Sub(a, b) ==
    /\ Len(nodes) < cap
    /\ Push(SubOf(nodes, a, b), [op |-> "sub", a |-> a, b |-> b, out |-> 0])

\* impl Mul for Scalar
Mul(a, b) ==
    /\ Len(nodes) < cap
    /\ Push(MulOf(nodes, a, b), [op |-> "mul", a |-> a, b |-> b, out |-> 0])

\* Scalar::powi
Powi(a, n) ==
    /\ Len(nodes) < cap
    /\ Push(PowiOf(nodes, a, n), [op |-> "powi", a |-> a, b |-> n, out |-> 0])

\* Scalar::tanh
Tanh(a) ==
    /\ Len(nodes) < cap
    /\ Push(TanhOf(nodes, a), [op |-> "tanh", a |-> a, b |-> 0, out |-> 0])

\* Scalar::set_data, called as the optimizer step does: on a leaf
SetData(a, d) ==
    /\ nodes[a].op = "NONE"
    /\ nodes' = [nodes EXCEPT ![a].data = d]
    /\ last' = [op |-> "set_data", a |-> a, b |-> d, out |-> 0]
    /\ order' = <<>>
    /\ tr' = NoTrace
    /\ residue' = FALSE
    /\ UNCHANGED <<cap, mlp, rng, ret, mutex, thr>>

\* Scalar::backward
Backward(root) ==
    /\ order' = BackwardOrder(nodes, root)
    /\ nodes' = BackwardOn(nodes, root, order')
    /\ residue' = (\E m \in Range(order') : nodes[m].grad # 0)
    /\ last' = [op |-> "backward", a |-> root, b |-> 0, out |-> 0]
    /\ tr' = NoTrace
    /\ UNCHANGED <<cap, mlp, rng, ret, mutex, thr>>

\* Scalar::trace
TraceOf(root) ==
    /\ tr' = Trace(nodes, root)
    /\ last' = [op |-> "trace", a |-> root, b |-> 0, out |-> 0]
    /\ order' = <<>>
    /\ residue' = FALSE
    /\ UNCHANGED <<nodes, cap, mlp, rng, ret, mutex, thr>>

Next ==
    \/ \E d \in LeafData : New(d)
    \/ \E a, b \in Ids(nodes) : Add(a, b)
    \/ \E a, b \in Ids(nodes) : AddAssign(a, b)
    \/ \E a, b \in Ids(nodes) : Sub(a, b)
    \/ \E a, b \in Ids(nodes) : Mul(a, b)
    \/ \E a \in Ids(nodes), n \in PowExps : Powi(a, n)
    \/ \E a \in Ids(nodes) : Tanh(a)
    \/ \E root \in Ids(nodes) : Backward(root)

Spec == Init /\ [][Next]_vars

\* ---------------------------------------------- optimizer-step (set_data) spec
\* building, differentiation and the rewriting of leaf data between passes
NextSet ==
    \/ \E d \in LeafData : New(d)
    \/ \E a, b \in Ids(nodes) : Add(a, b)
    \/ \E a, b \in Ids(nodes) : Sub(a, b)
    \/ \E a, b \in Ids(nodes) : Mul(a, b)
    \/ \E a \in Ids(nodes), n \in PowExps : Powi(a, n)
    \/ \E a \in Ids(nodes) : Tanh(a)
    \/ \E a \in Ids(nodes), d \in LeafData : SetData(a, d)
    \/ \E root \in Ids(nodes) : Backward(root)

SpecSet == Init /\ [][NextSet]_vars

\* ------------------------------------------- graph building and trace spec
\* the three leaves of tests::it_works: a = 1, b = 2, c = 4
InitTrace ==
    /\ nodes = <<ValueNew(1), ValueNew(2), ValueNew(4)>>
    /\ last = [op |-> "new", a |-> 0, b |-> 0, out |-> 3]
    /\ order = <<>>
    /\ tr = NoTrace
    /\ residue = FALSE
    /\ cap = MaxTraceNodes
    /\ mlp = NoMLP
    /\ rng = 0
    /\ mutex = <<>>
    /\ thr = <<>>
    /\ ret = NoRet

NextTrace ==
    \/ \E d \in LeafData : New(d)
    \/ \E a, b \in Ids(nodes) : Add(a, b)
    \/ \E a, b \in Ids(nodes) : AddAssign(a, b)
    \/ \E a, b \in Ids(nodes) : Sub(a, b)
    \/ \E a, b \in Ids(nodes) : Mul(a, b)
    \/ \E a \in Ids(nodes), n \in PowExps : Powi(a, n)
    \/ \E a \in Ids(nodes) : Tanh(a)
    \/ \E root \in Ids(nodes) : TraceOf(root)

SpecTrace == InitTrace /\ [][NextTrace]_vars

\* ------------------------------------------------------------ nn: building
\* rng.gen_range(-1.0..1.0) on the integer grid: a sample and the next state
RngSample(r) == IF r % 2 = 0 THEN -1 ELSE 0

RngNext(r) == (r + 1) % RngPeriod

\* the loop of Neuron::new: nin weights pushed, each drawn from the rng
RECURSIVE NeuronWeights(_, _, _, _)
NeuronWeights(ns, r, w, nin) ==
    IF Len(w) >= nin THEN [ns |-> ns, rng |-> r, w |-> w]
    ELSE NeuronWeights(Append(ns, ValueNew(RngSample(r))), RngNext(r),
                       Append(w, Len(ns) + 1), nin)

\* Neuron::new
NeuronNew(ns, r, nin, nonlin) ==
    LET ws == NeuronWeights(ns, r, <<>>, nin)
    IN [ns |-> Append(ws.ns, ValueNew(0)),
        rng |-> ws.rng,
        neuron |-> [w |-> ws.w, b |-> Len(ws.ns) + 1, nonlin |-> nonlin]]

\* Layer::new
RECURSIVE LayerNeurons(_, _, _, _, _, _)
LayerNeurons(ns, r, neurons, nin, nout, nonlin) ==
    IF Len(neurons) >= nout THEN [ns |-> ns, rng |-> r, layer |-> neurons]
    ELSE LET n == NeuronNew(ns, r, nin, nonlin)
         IN LayerNeurons(n.ns, n.rng, Append(neurons, n.neuron), nin, nout, nonlin)

LayerNew(ns, r, nin, nout, nonlin) == LayerNeurons(ns, r, <<>>, nin, nout, nonlin)

RECURSIVE MLPLayersWrongWidth(_, _, _, _, _)
MLPLayersWrongWidth(ns, r, layers, nouts, i) ==
    IF i >= Len(nouts) - 1 THEN [ns |-> ns, rng |-> r, layers |-> layers]
    ELSE LET l == LayerNew(ns, r, nouts[i + 2], nouts[i + 2], i # Len(nouts) - 2)
         IN MLPLayersWrongWidth(l.ns, l.rng, Append(layers, l.layer), nouts, i + 1)

\* the for loop of MLP::new: i ranges over 0..nouts.len() - 1 (i is 0-based)
RECURSIVE MLPLayers(_, _, _, _, _)
MLPLayers(ns, r, layers, nouts, i) ==
    IF i >= Len(nouts) - 1 THEN [ns |-> ns, rng |-> r, layers |-> layers]
    ELSE LET l == LayerNew(ns, r, nouts[i + 1], nouts[i + 2], i # Len(nouts) - 2)
         IN MLPLayers(l.ns, l.rng, Append(layers, l.layer), nouts, i + 1)

MLPNewOfFirstTanh(ns, r, nin, nouts) ==
    IF Len(nouts) > 0
    THEN LET first == LayerNew(ns, r, nin, nouts[1], TRUE)
         IN IF Len(nouts) > 1
            THEN MLPLayers(first.ns, first.rng, <<first.layer>>, nouts, 0)
            ELSE [ns |-> first.ns, rng |-> first.rng, layers |-> <<first.layer>>]
    ELSE [ns |-> ns, rng |-> r, layers |-> <<>>]

\* MLP::new
MLPNewOf(ns, r, nin, nouts) ==
    IF Len(nouts) > 0
    THEN LET first == LayerNew(ns, r, nin, nouts[1], 0 # Len(nouts) - 1)
         IN IF Len(nouts) > 1
            THEN MLPLayers(first.ns, first.rng, <<first.layer>>, nouts, 0)
            ELSE [ns |-> first.ns, rng |-> first.rng, layers |-> <<first.layer>>]
    ELSE [ns |-> ns, rng |-> r, layers |-> <<>>]

\* ------------------------------------------------------------- nn: forward
\* A call returns [ns, err, out, made]: the arena it leaves, Err(InputLenErr)
\* or Ok(out), and the number of Values it allocated.  The nodes a failed call
\* allocated are referenced by nothing once it has returned: the arena it
\* leaves is the one it was given.

\* the loop of Neuron::output: output += xi * wi for i in 0..w.len()
RECURSIVE NeuronSum(_, _, _, _, _)
NeuronSum(ns, neuron, input, output, i) ==
    IF i >= Len(neuron.w) THEN [ns |-> ns, output |-> output]
    ELSE LET xi == input[i + 1]
             wi == neuron.w[i + 1]
             ns1 == Append(ns, MulOf(ns, xi, wi))
             ns2 == Append(ns1, AddAssignOf(ns1, output, Len(ns1)))
         IN NeuronSum(ns2, neuron, input, Len(ns2), i + 1)

NeuronOutputShortOnly(ns, neuron, input) ==
    LET ns0 == Append(ns, ValueNew(0))
        output == Len(ns0)
    IN IF Len(neuron.w) > Len(input)
       THEN [ns |-> ns, err |-> TRUE, out |-> 0, made |-> 1]
       ELSE LET sum == NeuronSum(ns0, neuron, input, output, 0)
                ns1 == Append(sum.ns, AddAssignOf(sum.ns, sum.output, neuron.b))
            IN IF neuron.nonlin
               THEN [ns |-> Append(ns1, TanhOf(ns1, Len(ns1))), err |-> FALSE,
                     out |-> Len(ns1) + 1, made |-> Len(ns1) + 1 - Len(ns)]
               ELSE [ns |-> ns1, err |-> FALSE,
                     out |-> Len(ns1), made |-> Len(ns1) - Len(ns)]

\* Neuron::output
NeuronOutput(ns, neuron, input) ==
    LET ns0 == Append(ns, ValueNew(0))
        output == Len(ns0)
    IN IF Len(neuron.w) # Len(input)
       THEN [ns |-> ns, err |-> TRUE, out |-> 0, made |-> 1]
       ELSE LET sum == NeuronSum(ns0, neuron, input, output, 0)
                ns1 == Append(sum.ns, AddAssignOf(sum.ns, sum.output, neuron.b))
            IN IF neuron.nonlin
               THEN [ns |-> Append(ns1, TanhOf(ns1, Len(ns1))), err |-> FALSE,
                     out |-> Len(ns1) + 1, made |-> Len(ns1) + 1 - Len(ns)]
               ELSE [ns |-> ns1, err |-> FALSE,
                     out |-> Len(ns1), made |-> Len(ns1) - Len(ns)]

\* Layer::output: the neurons in order, the first error returned at once
RECURSIVE LayerOutputs(_, _, _, _, _, _)
LayerOutputs(ns0, ns, neurons, input, output, made) ==
    IF Len(output) >= Len(neurons)
    THEN [ns |-> ns, err |-> FALSE, out |-> output, made |-> made]
    ELSE LET o == NeuronOutput(ns, neurons[Len(output) + 1], input)
         IN IF o.err
            THEN [ns |-> ns0, err |-> TRUE, out |-> <<>>, made |-> made + o.made]
            ELSE LayerOutputs(ns0, o.ns, neurons, input, Append(output, o.out),
                              made + o.made)

LayerOutput(ns, layer, input) == LayerOutputs(ns, ns, layer, input, <<>>, 0)

\* MLP::output: each layer's output is the next layer's input
RECURSIVE MLPOutputs(_, _, _, _, _, _)
MLPOutputs(ns0, ns, layers, input, l, made) ==
    IF l > Len(layers)
    THEN [ns |-> ns, err |-> FALSE, out |-> input, made |-> made]
    ELSE LET o == LayerOutput(ns, layers[l], input)
         IN IF o.err
            THEN [ns |-> ns0, err |-> TRUE, out |-> <<>>, made |-> made + o.made]
            ELSE MLPOutputs(ns0, o.ns, layers, o.out, l + 1, made + o.made)

MLPOutput(ns, layers, input) == MLPOutputs(ns, ns, layers, input, 1, 0)

\* Neuron::parameters
NeuronParameters(neuron) == Append(neuron.w, neuron.b)

\* Layer::parameters
RECURSIVE LayerParameters(_)
LayerParameters(layer) ==
    IF layer = <<>> THEN <<>>
    ELSE NeuronParameters(Head(layer)) \o LayerParameters(Tail(layer))

\* MLP::parameters
RECURSIVE MLPParameters(_)
MLPParameters(layers) ==
    IF layers = <<>> THEN <<>>
    ELSE LayerParameters(Head(layers)) \o MLPParameters(Tail(layers))

\* ------------------------------------------------------------- nn: actions
NNCall(name, a, b) == [op |-> name, a |-> a, b |-> b, out |-> 0]

\* no forward graph is alive: the arena holds the parameters only
OnlyParameters == Len(nodes) = Len(MLPParameters(mlp.layers))

\* MLP::new(nin, nouts)
MLPNew(nin, nouts) ==
    /\ ~mlp.built
    /\ LET m == MLPNewOf(nodes, rng, nin, nouts)
       IN /\ nodes' = m.ns
          /\ rng' = m.rng
          /\ mlp' = [built |-> TRUE, nin |-> nin, nouts |-> nouts, layers |-> m.layers]
    /\ last' = NNCall("mlp_new", 0, 0)
    /\ ret' = NoRet
    /\ UNCHANGED <<order, tr, residue, cap, mutex, thr>>

\* the caller builds an input vector: n leaves of data d
Inputs(n, d) ==
    /\ mlp.built
    /\ OnlyParameters
    /\ nodes' = nodes \o [j \in 1..n |-> ValueNew(d)]
    /\ last' = NNCall("inputs", 0, 0)
    /\ ret' = [NoRet EXCEPT !.res = [j \in 1..n |-> Len(nodes) + j], !.made = n]
    /\ UNCHANGED <<order, tr, residue, cap, mlp, rng, mutex, thr>>

Returned(o, input, call) ==
    /\ nodes' = o.ns
    /\ last' = call
    /\ ret' = [err |-> o.err, res |-> o.out, made |-> o.made, input |-> input]
    /\ UNCHANGED <<order, tr, residue, cap, mlp, rng, mutex, thr>>

\* neuron.output(input) on neuron k of layer l
NeuronOutputCall(l, k) ==
    /\ last.op = "inputs"
    /\ LET o == NeuronOutput(nodes, mlp.layers[l][k], ret.res)
       IN Returned([o EXCEPT !.out = IF o.err THEN <<>> ELSE <<o.out>>],
                   ret.res, NNCall("neuron_output", l, k))

\* layer.output(input) on layer l
LayerOutputCall(l) ==
    /\ last.op = "inputs"
    /\ Returned(LayerOutput(nodes, mlp.layers[l], ret.res), ret.res,
                NNCall("layer_output", l, 0))

\* mlp.output(input)
MLPOutputCall ==
    /\ last.op = "inputs"
    /\ Returned(MLPOutput(nodes, mlp.layers, ret.res), ret.res,
                NNCall("mlp_output", 0, 0))

\* mlp.parameters()
ParametersCall ==
    /\ mlp.built
    /\ last' = NNCall("parameters", 0, 0)
    /\ ret' = [NoRet EXCEPT !.res = MLPParameters(mlp.layers)]
    /\ UNCHANGED <<nodes, order, tr, residue, cap, mlp, rng, mutex, thr>>

\* the caller lets go of the inputs and outputs of a forward pass
DropForward ==
    /\ mlp.built
    /\ ~OnlyParameters
    /\ nodes' = SubSeq(nodes, 1, Len(MLPParameters(mlp.layers)))
    /\ last' = NNCall("drop", 0, 0)
    /\ ret' = NoRet
    /\ UNCHANGED <<order, tr, residue, cap, mlp, rng, mutex, thr>>

NoutsOf(len) == [1..len -> Widths]

InitNN ==
    /\ nodes = <<>>
    /\ last = NoCall
    /\ order = <<>>
    /\ tr = NoTrace
    /\ residue = FALSE
    /\ cap = 0
    /\ mlp = NoMLP
    /\ rng \in 0..(RngPeriod - 1)
    /\ mutex = <<>>
    /\ thr = <<>>
    /\ ret = NoRet

NextNN ==
    \/ \E nin \in Nins, len \in 0..MaxLayers : \E nouts \in NoutsOf(len) :
           MLPNew(nin, nouts)
    \/ \E n \in InLens, d \in LeafData : Inputs(n, d)
    \/ \E l \in 1..Len(mlp.layers) : \E k \in 1..Len(mlp.layers[l]) :
           NeuronOutputCall(l, k)
    \/ \E l \in 1..Len(mlp.layers) : LayerOutputCall(l)
    \/ MLPOutputCall
    \/ ParametersCall
    \/ DropForward

SpecNN == InitNN /\ [][NextNN]_vars

\* ------------------------------------------------------- threads and locks
\* Every Scalar is an Arc<Mutex<Value>>: handles are shared between threads
\* and every access to a Value goes through its Mutex.  Here each thread makes
\* one call on a graph built beforehand, and a call is split at every
\* lock() and every release of a guard.
Threads == {1, 2}

BinaryOps == {"add", "sub", "mul"}

\* Ord::cmp has the body of partial_cmp but needs T: Ord, which no float has
CmpOps == {"eq", "partial_cmp"}

WalkOps == {"traverse", "trace", "backward"}

Free == [owner |-> 0, poisoned |-> FALSE]

NoThread ==
    [st |-> "idle", op |-> "none", a |-> 0, b |-> 0, pc |-> "none", wait |-> FALSE,
     scalars |-> <<>>, edges |-> <<>>, ptr |-> 0, x |-> 0, y |-> 0]

\* the graphs the calls run on: leaves a = 2 and b = 3 and one node built on
\* them, a + a among them (a node that is its own sibling)
LockArenas ==
    LET leaves == <<ValueNew(2), ValueNew(3)>>
    IN {Append(leaves, v) : v \in {AddOf(leaves, 1, 1), SubOf(leaves, 1, 2),
                                   MulOf(leaves, 1, 2), PowiOf(leaves, 1, 2),
                                   TanhOf(leaves, 1)}}

\* the node whose Mutex the thread is about to lock
Target(t) ==
    LET h == thr[t]
    IN CASE h.pc = "self" -> h.a
         [] h.pc = "other" -> h.b
         [] h.pc = "seed" -> h.a
         [] h.pc \in {"walk", "reset", "cal_grad"} -> h.scalars[h.ptr]
         [] h.pc \in {"c1", "c1_again"} -> nodes[h.scalars[h.ptr]].c1
         [] h.pc = "c2" -> nodes[h.scalars[h.ptr]].c2

\* a MutexGuard goes out of scope
Release(m, n) == [m EXCEPT ![n].owner = 0]

\* a thread unwinds: its position is lost and every guard it holds is dropped
\* while panicking, which poisons the Mutex
Unwind(t) ==
    /\ thr' = [thr EXCEPT ![t].st = "panicked", ![t].wait = FALSE]
    /\ mutex' = [n \in 1..Len(mutex) |->
                    IF mutex[n].owner = t THEN [owner |-> 0, poisoned |-> TRUE]
                    ELSE mutex[n]]

\* the call has returned
Done(h) ==
    [NoThread EXCEPT !.st = "done", !.op = h.op, !.a = h.a, !.b = h.b,
                     !.x = h.x, !.y = h.y]

Waiting(t) == thr[t].st = "run" /\ thr[t].wait

Working(t, pcs) == thr[t].st = "run" /\ ~thr[t].wait /\ thr[t].pc \in pcs

\* a thread calls an operator or a comparison on two handles
CallBinary(t, op, a, b) ==
    /\ thr[t].st = "idle"
    /\ thr' = [thr EXCEPT ![t] = [NoThread EXCEPT !.st = "run", !.op = op, !.a = a,
                                      !.b = b, !.pc = "self", !.wait = TRUE]]
    /\ UNCHANGED <<nodes, last, order, tr, residue, cap, mlp, rng, ret, mutex>>

\* a thread calls traverse, trace or backward on a handle
CallWalk(t, op, root) ==
    /\ thr[t].st = "idle"
    /\ thr' = [thr EXCEPT ![t] = [NoThread EXCEPT !.st = "run", !.op = op, !.a = root,
                                      !.pc = "walk", !.wait = TRUE,
                                      !.scalars = <<root>>, !.ptr = 1]]
    /\ UNCHANGED <<nodes, last, order, tr, residue, cap, mlp, rng, ret, mutex>>

\* Mutex::lock().unwrap() on a Mutex nobody holds
Lock(t) ==
    /\ Waiting(t)
    /\ mutex[Target(t)] = Free
    /\ mutex' = [mutex EXCEPT ![Target(t)].owner = t]
    /\ thr' = [thr EXCEPT ![t].wait = FALSE]
    /\ UNCHANGED <<nodes, last, order, tr, residue, cap, mlp, rng, ret>>

\* Mutex::lock().unwrap() on a poisoned Mutex: lock() returns Err, unwrap panics
LockPoisoned(t) ==
    /\ Waiting(t)
    /\ mutex[Target(t)].owner = 0
    /\ mutex[Target(t)].poisoned
    /\ Unwind(t)
    /\ UNCHANGED <<nodes, last, order, tr, residue, cap, mlp, rng, ret>>

\* Mutex::lock() by the thread that holds the Mutex: the call never returns,
\* it blocks for ever or it panics
Relock(t) ==
    /\ Waiting(t)
    /\ mutex[Target(t)].owner = t
    /\ \/ thr' = [thr EXCEPT ![t].st = "blocked"] /\ mutex' = mutex
       \/ Unwind(t)
    /\ UNCHANGED <<nodes, last, order, tr, residue, cap, mlp, rng, ret>>

BinaryData(op, x, y) ==
    CASE op = "add" -> x + y
      [] op = "sub" -> x - y
      [] op = "mul" -> x * y

BinaryOp(op) ==
    CASE op = "add" -> "ADD"
      [] op = "sub" -> "SUB"
      [] op = "mul" -> "MUL"

\* add, sub, mul: self_data is read and the guard on self dropped
BinarySelf(t) ==
    /\ Working(t, {"self"})
    /\ thr[t].op \in BinaryOps
    /\ thr' = [thr EXCEPT ![t].x = nodes[thr[t].a].data, ![t].pc = "other",
                          ![t].wait = TRUE]
    /\ mutex' = Release(mutex, thr[t].a)
    /\ UNCHANGED <<nodes, last, order, tr, residue, cap, mlp, rng, ret>>

\* add, sub, mul: other_data is read, the guard on other dropped and the
\* output node created
BinaryOther(t) ==
    /\ Working(t, {"other"})
    /\ thr[t].op \in BinaryOps
    /\ LET h == thr[t]
           y == nodes[h.b].data
       IN /\ nodes' = Append(nodes, Output(BinaryData(h.op, h.x, y), h.a, h.b,
                                           BinaryOp(h.op), 0))
          /\ mutex' = Append(Release(mutex, h.b), Free)
          /\ thr' = [thr EXCEPT ![t] = Done([h EXCEPT !.y = y])]
    /\ UNCHANGED <<last, order, tr, residue, cap, mlp, rng, ret>>

\* eq, partial_cmp: the guard on self is kept while other is locked
CmpSelf(t) ==
    /\ Working(t, {"self"})
    /\ thr[t].op \in CmpOps
    /\ thr' = [thr EXCEPT ![t].pc = "other", ![t].wait = TRUE]
    /\ UNCHANGED <<nodes, last, order, tr, residue, cap, mlp, rng, ret, mutex>>

\* eq, partial_cmp: both data are compared and both guards dropped on return
CmpOther(t) ==
    /\ Working(t, {"other"})
    /\ thr[t].op \in CmpOps
    /\ LET h == thr[t]
       IN /\ thr' = [thr EXCEPT ![t] = Done([h EXCEPT !.x = nodes[h.a].data,
                                                      !.y = nodes[h.b].data])]
          /\ mutex' = Release(Release(mutex, h.b), h.a)
    /\ UNCHANGED <<nodes, last, order, tr, residue, cap, mlp, rng, ret>>

\* what the loop of traverse pushes for one node
Pushed(n) ==
    IF n.c1 # 0 /\ n.c2 # 0 THEN <<n.c1, n.c2>>
    ELSE IF n.c1 # 0 THEN <<n.c1>>
    ELSE IF n.c2 # 0 THEN <<n.c2>>
    ELSE <<>>

\* what the loop of trace does for the node at `pointer`
TraceVisit(ns, t, pointer) ==
    LET n == ns[t.nodes[pointer + 1]]
    IN IF n.c1 # 0 /\ n.c2 # 0
       THEN IF n.c1 = n.c2
            THEN TraceTwin(t, n.c1, pointer)
            ELSE TraceChild(TraceChild(t, n.c1, pointer), n.c2, pointer)
       ELSE IF n.c1 # 0 THEN TraceChild(t, n.c1, pointer)
       ELSE IF n.c2 # 0 THEN TraceChild(t, n.c2, pointer)
       ELSE t

\* traverse, trace, and the traverse of backward: one turn of the while loop
\* under the guard on nodes[pointer]; backward goes on to its reset loop
Walk(t) ==
    /\ Working(t, {"walk"})
    /\ LET h == thr[t]
           seen == IF h.op = "trace"
                   THEN TraceVisit(nodes, [nodes |-> h.scalars, edges |-> h.edges],
                                   h.ptr - 1)
                   ELSE [nodes |-> h.scalars \o Pushed(nodes[h.scalars[h.ptr]]),
                         edges |-> <<>>]
           h2 == [h EXCEPT !.scalars = seen.nodes, !.edges = seen.edges,
                           !.ptr = h.ptr + 1, !.wait = TRUE]
       IN /\ thr' = [thr EXCEPT ![t] =
                        IF Len(h2.scalars) >= h2.ptr THEN h2
                        ELSE IF h.op = "backward"
                        THEN [h2 EXCEPT !.pc = "reset", !.ptr = 1]
                        ELSE Done(h)]
          /\ mutex' = Release(mutex, h.scalars[h.ptr])
    /\ UNCHANGED <<nodes, last, order, tr, residue, cap, mlp, rng, ret>>

\* backward: one turn of the reset loop
Reset(t) ==
    /\ Working(t, {"reset"})
    /\ LET h == thr[t]
           s == h.scalars[h.ptr]
       IN /\ nodes' = [nodes EXCEPT ![s].grad = 0]
          /\ mutex' = Release(mutex, s)
          /\ thr' = [thr EXCEPT ![t] =
                        IF h.ptr < Len(h.scalars)
                        THEN [h EXCEPT !.ptr = h.ptr + 1, !.wait = TRUE]
                        ELSE [h EXCEPT !.pc = "seed", !.wait = TRUE]]
    /\ UNCHANGED <<last, order, tr, residue, cap, mlp, rng, ret>>

\* backward: value.grad = 1.0 on self
Seed(t) ==
    /\ Working(t, {"seed"})
    /\ nodes' = [nodes EXCEPT ![thr[t].a].grad = 1]
    /\ mutex' = Release(mutex, thr[t].a)
    /\ thr' = [thr EXCEPT ![t].pc = "cal_grad", ![t].ptr = 1, ![t].wait = TRUE]
    /\ UNCHANGED <<last, order, tr, residue, cap, mlp, rng, ret>>

\* cal_grad has returned: the next scalar of backward's loop, or the end
Advance(h) ==
    IF h.ptr < Len(h.scalars)
    THEN [h EXCEPT !.pc = "cal_grad", !.ptr = h.ptr + 1, !.wait = TRUE]
    ELSE Done(h)

\* cal_grad: match value.op under the guard on self
CalGradMatch(t) ==
    /\ Working(t, {"cal_grad"})
    /\ LET h == thr[t]
           s == h.scalars[h.ptr]
           value == nodes[s]
           taken == \/ value.op \in {"ADD", "SUB", "MUL"} /\ value.c1 # 0 /\ value.c2 # 0
                    \/ value.op \in {"POWI", "TANH"} /\ value.c1 # 0 /\ value.c2 = 0
       IN IF taken
          THEN /\ thr' = [thr EXCEPT ![t].pc = "c1", ![t].wait = TRUE]
               /\ mutex' = mutex
          ELSE /\ thr' = [thr EXCEPT ![t] = Advance(h)]
               /\ mutex' = Release(mutex, s)
    /\ UNCHANGED <<nodes, last, order, tr, residue, cap, mlp, rng, ret>>

\* cal_grad: under the guards on self and on the first child
CalGradC1(t) ==
    /\ Working(t, {"c1"})
    /\ LET h == thr[t]
           s == h.scalars[h.ptr]
           value == nodes[s]
           c == value.c1
       IN CASE value.op \in {"ADD", "SUB"} ->
                   /\ nodes' = AddGrad(nodes, c, value.grad)
                   /\ mutex' = Release(mutex, c)
                   /\ thr' = [thr EXCEPT ![t].pc = "c2", ![t].wait = TRUE]
            [] value.op = "MUL" ->
                   /\ nodes' = nodes
                   /\ mutex' = Release(mutex, c)
                   /\ thr' = [thr EXCEPT ![t].x = nodes[c].data, ![t].pc = "c2",
                                         ![t].wait = TRUE]
            [] value.op = "POWI" ->
                   /\ nodes' = AddGrad(nodes, c, value.exp
                                       * Pow(nodes[c].data, value.exp - 1) * value.grad)
                   /\ mutex' = Release(Release(mutex, c), s)
                   /\ thr' = [thr EXCEPT ![t] = Advance(h)]
            [] value.op = "TANH" ->
                   /\ nodes' = AddGrad(nodes, c, (1 - Pow(value.data, 2)) * value.grad)
                   /\ mutex' = Release(Release(mutex, c), s)
                   /\ thr' = [thr EXCEPT ![t] = Advance(h)]
    /\ UNCHANGED <<last, order, tr, residue, cap, mlp, rng, ret>>

\* cal_grad: under the guards on self and on the second child
CalGradC2(t) ==
    /\ Working(t, {"c2"})
    /\ LET h == thr[t]
           s == h.scalars[h.ptr]
           value == nodes[s]
           c == value.c2
       IN CASE value.op = "ADD" ->
                   /\ nodes' = AddGrad(nodes, c, value.grad)
                   /\ mutex' = Release(Release(mutex, c), s)
                   /\ thr' = [thr EXCEPT ![t] = Advance(h)]
            [] value.op = "SUB" ->
                   /\ nodes' = AddGrad(nodes, c, -value.grad)
                   /\ mutex' = Release(Release(mutex, c), s)
                   /\ thr' = [thr EXCEPT ![t] = Advance(h)]
            [] value.op = "MUL" ->
                   /\ nodes' = AddGrad(nodes, c, h.x * value.grad)
                   /\ mutex' = Release(mutex, c)
                   /\ thr' = [thr EXCEPT ![t].y = nodes[c].data, ![t].pc = "c1_again",
                                         ![t].wait = TRUE]
    /\ UNCHANGED <<last, order, tr, residue, cap, mlp, rng, ret>>

\* cal_grad, Op::MUL: the first child locked again for its grad
CalGradC1Again(t) ==
    /\ Working(t, {"c1_again"})
    /\ LET h == thr[t]
           s == h.scalars[h.ptr]
           value == nodes[s]
       IN /\ nodes' = AddGrad(nodes, value.c1, h.y * value.grad)
          /\ mutex' = Release(Release(mutex, value.c1), s)
          /\ thr' = [thr EXCEPT ![t] = Advance(h)]
    /\ UNCHANGED <<last, order, tr, residue, cap, mlp, rng, ret>>

InitLock ==
    /\ nodes \in LockArenas
    /\ last = NoCall
    /\ order = <<>>
    /\ tr = NoTrace
    /\ residue = FALSE
    /\ cap = 0
    /\ mlp = NoMLP
    /\ rng = 0
    /\ ret = NoRet
    /\ mutex = [n \in 1..3 |-> Free]
    /\ thr = [t \in Threads |-> NoThread]

NextLock ==
    \/ \E t \in Threads, op \in BinaryOps \cup CmpOps, a, b \in Ids(nodes) :
           CallBinary(t, op, a, b)
    \/ \E t \in Threads, op \in WalkOps, root \in Ids(nodes) : CallWalk(t, op, root)
    \/ \E t \in Threads : Lock(t)
    \/ \E t \in Threads : LockPoisoned(t)
    \/ \E t \in Threads : Relock(t)
    \/ \E t \in Threads : BinarySelf(t)
    \/ \E t \in Threads : BinaryOther(t)
    \/ \E t \in Threads : CmpSelf(t)
    \/ \E t \in Threads : CmpOther(t)
    \/ \E t \in Threads : Walk(t)
    \/ \E t \in Threads : Reset(t)
    \/ \E t \in Threads : Seed(t)
    \/ \E t \in Threads : CalGradMatch(t)
    \/ \E t \in Threads : CalGradC1(t)
    \/ \E t \in Threads : CalGradC2(t)
    \/ \E t \in Threads : CalGradC1Again(t)

SpecLock == InitLock /\ [][NextLock]_vars

\* ------------------------------------------------- mathematics of a graph
IsLeaf(ns, m) == ns[m].c1 = 0 /\ ns[m].c2 = 0

\* the nodes reachable from m along child references
RECURSIVE Reach(_, _)
Reach(ns, m) ==
    IF m = 0 THEN {} ELSE {m} \cup Reach(ns, ns[m].c1) \cup Reach(ns, ns[m].c2)

\* the value of the expression m at the current data of its leaves
RECURSIVE Eval(_, _)
Eval(ns, m) ==
    CASE ns[m].op = "ADD" -> Eval(ns, ns[m].c1) + Eval(ns, ns[m].c2)
      [] ns[m].op = "SUB" -> Eval(ns, ns[m].c1) - Eval(ns, ns[m].c2)
      [] ns[m].op = "MUL" -> Eval(ns, ns[m].c1) * Eval(ns, ns[m].c2)
      [] ns[m].op = "POWI" -> Pow(Eval(ns, ns[m].c1), ns[m].exp)
      [] ns[m].op = "TANH" -> TanhF(Eval(ns, ns[m].c1))
      [] OTHER -> ns[m].data

\* the derivative of the expression m with respect to its sub-expression n:
\* the sum over all paths from m to n of the product of the local derivatives
RECURSIVE Deriv(_, _, _)
Deriv(ns, m, n) ==
    IF m = n THEN 1
    ELSE CASE ns[m].op = "ADD" -> Deriv(ns, ns[m].c1, n) + Deriv(ns, ns[m].c2, n)
           [] ns[m].op = "SUB" -> Deriv(ns, ns[m].c1, n) - Deriv(ns, ns[m].c2, n)
           [] ns[m].op = "MUL" ->
                  Deriv(ns, ns[m].c1, n) * Eval(ns, ns[m].c2)
                  + Eval(ns, ns[m].c1) * Deriv(ns, ns[m].c2, n)
           [] ns[m].op = "POWI" ->
                  ns[m].exp * Pow(Eval(ns, ns[m].c1), ns[m].exp - 1)
                  * Deriv(ns, ns[m].c1, n)
           [] ns[m].op = "TANH" ->
                  (1 - Pow(TanhF(Eval(ns, ns[m].c1)), 2)) * Deriv(ns, ns[m].c1, n)
           [] OTHER -> 0

\* the lengths of the paths from m down to n
RECURSIVE DepthSet(_, _, _)
DepthSet(ns, m, n) ==
    IF m = 0 THEN {}
    ELSE IF m = n THEN {0}
    ELSE {d + 1 : d \in DepthSet(ns, ns[m].c1, n) \cup DepthSet(ns, ns[m].c2, n)}

MinDepth(ns, m, n) ==
    CHOOSE d \in DepthSet(ns, m, n) : \A e \in DepthSet(ns, m, n) : d <= e

\* number of child references to n held by the nodes reachable from root
RefCount(ns, root, n) ==
    Cardinality({p \in Reach(ns, root) : ns[p].c1 = n})
    + Cardinality({p \in Reach(ns, root) : ns[p].c2 = n})

\* every stored forward value under root is the value of its expression
Consistent(ns, root) == \A m \in Reach(ns, root) : ns[m].data = Eval(ns, m)

\* every non-leaf node under root is referenced by exactly one parent
SingleParent(ns, root) ==
    \A m \in Reach(ns, root) \ {root} : ~IsLeaf(ns, m) => RefCount(ns, root, m) = 1

\* the expression is built with add, sub, mul and powi only
PolyOps(ns, root) == \A m \in Reach(ns, root) : ns[m].op # "TANH"

\* no node is reachable from root by two paths of different lengths
Levelled(ns, root) ==
    \A m \in Reach(ns, root) : Cardinality(DepthSet(ns, root, m)) = 1

\* every operand of mul and powi is a leaf, and there is no tanh
LeafOperands(ns, root) ==
    \A m \in Reach(ns, root) :
        /\ ns[m].op # "TANH"
        /\ ns[m].op \in {"MUL", "POWI"} =>
               /\ IsLeaf(ns, ns[m].c1)
               /\ ns[m].c2 # 0 => IsLeaf(ns, ns[m].c2)

ZeroGrads(ns) == [j \in 1..Len(ns) |-> [ns[j] EXCEPT !.grad = 0]]

AfterBackward == last.op = "backward"

\* ----------------------------------------------------- whole-interface spec
\* every public way to touch a graph: the operators, set_data on any node,
\* backward, traverse and trace
SetDataRecompute(a, d) ==
    /\ LET set == [nodes EXCEPT ![a].data = d]
       IN nodes' = [m \in 1..Len(set) |->
                       IF IsLeaf(set, m) \/ m = a THEN set[m]
                       ELSE [set[m] EXCEPT !.data = Eval(set, m)]]
    /\ last' = [op |-> "set_data", a |-> a, b |-> d, out |-> 0]
    /\ order' = <<>>
    /\ tr' = NoTrace
    /\ residue' = FALSE
    /\ UNCHANGED <<cap, mlp, rng, ret, mutex, thr>>

\* Scalar::set_data on any node, leaf or not
SetDataOn(a, d) ==
    /\ nodes' = [nodes EXCEPT ![a].data = d]
    /\ last' = [op |-> "set_data", a |-> a, b |-> d, out |-> 0]
    /\ order' = <<>>
    /\ tr' = NoTrace
    /\ residue' = FALSE
    /\ UNCHANGED <<cap, mlp, rng, ret, mutex, thr>>

\* Scalar::traverse
TraverseOf(root) ==
    /\ tr' = [nodes |-> Traverse(nodes, root), edges |-> <<>>]
    /\ last' = [op |-> "traverse", a |-> root, b |-> 0, out |-> 0]
    /\ order' = <<>>
    /\ residue' = FALSE
    /\ UNCHANGED <<nodes, cap, mlp, rng, ret, mutex, thr>>

InitFrame ==
    /\ nodes = <<>>
    /\ last = NoCall
    /\ order = <<>>
    /\ tr = NoTrace
    /\ residue = FALSE
    /\ cap = MaxFrameNodes
    /\ mlp = NoMLP
    /\ rng = 0
    /\ mutex = <<>>
    /\ thr = <<>>
    /\ ret = NoRet

NextFrame ==
    \/ \E d \in LeafData : New(d)
    \/ \E a, b \in Ids(nodes) : Add(a, b)
    \/ \E a, b \in Ids(nodes) : AddAssign(a, b)
    \/ \E a, b \in Ids(nodes) : Sub(a, b)
    \/ \E a, b \in Ids(nodes) : Mul(a, b)
    \/ \E a \in Ids(nodes), n \in PowExps : Powi(a, n)
    \/ \E a \in Ids(nodes) : Tanh(a)
    \/ \E a \in Ids(nodes), d \in LeafData : SetDataOn(a, d)
    \/ \E root \in Ids(nodes) : Backward(root)
    \/ \E root \in Ids(nodes) : TraverseOf(root)
    \/ \E root \in Ids(nodes) : TraceOf(root)

SpecFrame == InitFrame /\ [][NextFrame]_vars

\* ------------------------------------------------------------------ claims

\* C1: in one backward(root) pass cal_grad runs on the nodes of the
\* deduplicated trace's node list, in that order: once per distinct node
\* reachable from root, however many paths lead to it.
C1_CalGradOncePerNode ==
    AfterBackward => order = Trace(nodes, last.a).nodes

\* C2: for an expression of add, sub, mul and powi in which every non-leaf
\* node has exactly one parent reference, after backward each leaf's grad is
\* the exact partial derivative of root; d = a + a has data 2x and a.grad = 2.
C2_LeafGradExact ==
    AfterBackward =>
        LET root == last.a IN
        /\ (PolyOps(nodes, root) /\ SingleParent(nodes, root)
               /\ Consistent(nodes, root)) =>
              \A l \in Reach(nodes, root) :
                  IsLeaf(nodes, l) => nodes[l].grad = Deriv(nodes, root, l)
        /\ (nodes[root].op = "ADD" /\ nodes[root].c1 = nodes[root].c2
               /\ IsLeaf(nodes, nodes[root].c1) /\ Consistent(nodes, root)) =>
              /\ nodes[root].data = 2 * nodes[nodes[root].c1].data
              /\ nodes[nodes[root].c1].grad = 2

C2_Witness ==
    /\ AfterBackward
    /\ nodes[last.a].op = "ADD"
    /\ nodes[last.a].c1 = nodes[last.a].c2
    /\ IsLeaf(nodes, nodes[last.a].c1)
    /\ Consistent(nodes, last.a)
    /\ nodes[nodes[last.a].c1].grad = 2

\* C3: when no node is reachable from root by two paths of different lengths,
\* backward runs cal_grad on a node only after all its parents, and leaves on
\* every reachable node the exact derivative of root with respect to it.
C3_LevelledGradExact ==
    (AfterBackward /\ Levelled(nodes, last.a) /\ Consistent(nodes, last.a)) =>
        /\ \A i, j \in 1..Len(order) :
               i < j => order[i] \notin {nodes[order[j]].c1, nodes[order[j]].c2}
        /\ \A m \in Reach(nodes, last.a) :
               nodes[m].grad = Deriv(nodes, last.a, m)

\* C4: backward zeroes every reachable grad before it seeds and propagates:
\* the grads a pass leaves are those of a pass started from all-zero grads,
\* and a second pass in a row leaves the same grads.
C4_ResetBeforePass ==
    AfterBackward =>
        \A m \in Reach(nodes, last.a) :
            /\ nodes[m].grad = BackwardGrads(ZeroGrads(nodes), last.a)[m].grad
            /\ nodes[m].grad = BackwardGrads(nodes, last.a)[m].grad

C4_Witness ==
    /\ AfterBackward
    /\ residue
    /\ ~IsLeaf(nodes, last.a)

\* C5 as stated: once set_data has changed leaves of a built expression (its
\* stored forward values no longer match the leaves), backward on the same
\* root leaves on each leaf the partial derivative at the leaves' current
\* data, whatever the shape (stated on the shapes where C2 holds).
C5_GradAtLatestData ==
    (AfterBackward /\ ~Consistent(nodes, last.a) /\ SingleParent(nodes, last.a)) =>
        \A l \in Reach(nodes, last.a) :
            IsLeaf(nodes, l) => nodes[l].grad = Deriv(nodes, last.a, l)

\* C5 amended: the same, for expressions in which every operand of a mul or
\* powi node is a leaf and there is no tanh node.
C5_GradAtLatestLeafData ==
    (AfterBackward /\ SingleParent(nodes, last.a) /\ LeafOperands(nodes, last.a)) =>
        \A l \in Reach(nodes, last.a) :
            IsLeaf(nodes, l) => nodes[l].grad = Deriv(nodes, last.a, l)

C5_Witness ==
    /\ AfterBackward
    /\ ~Consistent(nodes, last.a)
    /\ SingleParent(nodes, last.a)
    /\ LeafOperands(nodes, last.a)
    /\ nodes[last.a].op = "MUL"
    /\ nodes[last.a].c1 # nodes[last.a].c2

\* C6: a + b, a += b, a - b, a * b and a.powi(n) each append one node whose
\* data is x + y, x + y, x - y, x * y, x^n of the operands' data, whose op
\* records the operator, whose grad is 0 and whose children are the operand
\* nodes themselves, left operand first (one child for powi and tanh).
C6_OperatorResult ==
    last.op \in {"add", "add_assign", "sub", "mul", "powi", "tanh"} =>
        LET v == nodes[last.out]
            x == nodes[last.a].data
        IN /\ last.out = Len(nodes)
           /\ v.grad = 0
           /\ v.c1 = last.a
           /\ last.op \in {"add", "add_assign"} =>
                  /\ v.data = x + nodes[last.b].data
                  /\ v.op = "ADD" /\ v.c2 = last.b
           /\ last.op = "sub" =>
                  /\ v.data = x - nodes[last.b].data
                  /\ v.op = "SUB" /\ v.c2 = last.b
           /\ last.op = "mul" =>
                  /\ v.data = x * nodes[last.b].data
                  /\ v.op = "MUL" /\ v.c2 = last.b
           /\ last.op = "powi" =>
                  /\ last.b = 2 => v.data = x * x
                  /\ last.b = 3 => v.data = x * x * x
                  /\ last.b = 4 => v.data = x * x * x * x
                  /\ v.op = "POWI" /\ v.exp = last.b /\ v.c2 = 0
           /\ last.op = "tanh" => v.op = "TANH" /\ v.c2 = 0

C6_Witness ==
    /\ last.op = "sub"
    /\ last.a = last.b
    /\ nodes[last.a].grad # 0
    /\ nodes[last.out].data = 0

\* position (from 0) of node m in the node list of the last trace
TrIndex(m) == (CHOOSE j \in 1..Len(tr.nodes) : tr.nodes[j] = m) - 1

TrData == [j \in 1..Len(tr.nodes) |-> nodes[tr.nodes[j]].data]

\* the child references of the listed nodes, as (child index, parent index),
\* parent by parent in list order, left child first
RECURSIVE ChildEdges(_)
ChildEdges(p) ==
    IF p = 0 THEN <<>>
    ELSE LET n == nodes[tr.nodes[p]]
         IN ChildEdges(p - 1)
            \o (IF n.c1 # 0 THEN <<(<<TrIndex(n.c1), p - 1>>)>> ELSE <<>>)
            \o (IF n.c2 # 0 THEN <<(<<TrIndex(n.c2), p - 1>>)>> ELSE <<>>)

AfterTrace == last.op = "trace"

\* C7: trace(root) lists every node reachable from root exactly once by
\* identity, root first and the rest in breadth-first discovery order, with
\* one (child index, parent index) edge per child reference, two equal edges
\* for a node used as both operands; (a + b) * c with a = 1, b = 2, c = 4
\* gives data [12, 3, 4, 1, 2] and edges [(1,0), (2,0), (3,1), (4,1)].
C7_TraceDedup ==
    AfterTrace =>
        LET root == last.a IN
        /\ tr.nodes[1] = root
        /\ {tr.nodes[j] : j \in 1..Len(tr.nodes)} = Reach(nodes, root)
        /\ \A i, j \in 1..Len(tr.nodes) : tr.nodes[i] = tr.nodes[j] => i = j
        /\ \A i, j \in 1..Len(tr.nodes) :
               i < j => MinDepth(nodes, root, tr.nodes[i])
                            <= MinDepth(nodes, root, tr.nodes[j])
        /\ tr.edges = ChildEdges(Len(tr.nodes))
        /\ (/\ nodes[root].op = "MUL"
            /\ nodes[nodes[root].c1].op = "ADD"
            /\ nodes[nodes[nodes[root].c1].c1] = ValueNew(1)
            /\ nodes[nodes[nodes[root].c1].c2] = ValueNew(2)
            /\ nodes[nodes[root].c2] = ValueNew(4)) =>
                  /\ TrData = <<12, 3, 4, 1, 2>>
                  /\ tr.edges = <<(<<1, 0>>), (<<2, 0>>), (<<3, 1>>), (<<4, 1>>)>>

C7_Witness ==
    /\ AfterTrace
    /\ nodes[last.a].op = "MUL"
    /\ TrData = <<12, 3, 4, 1, 2>>
    /\ tr.edges = <<(<<1, 0>>), (<<2, 0>>), (<<3, 1>>), (<<4, 1>>)>>

\* C8 as stated: in every (source, destination) pair of the edge list the
\* destination is a later-or-equal index than the source.
C8_DestinationNotEarlier ==
    AfterTrace => \A k \in 1..Len(tr.edges) : tr.edges[k][2] >= tr.edges[k][1]

\* C8 amended: in every pair the source is the index of a child and the
\* destination the index of a parent holding it, the two are never equal, and
\* every listed node but the root has an edge whose destination is an earlier
\* index than its source (the edge that discovered it).
C8_SourceIsChild ==
    AfterTrace =>
        /\ \A k \in 1..Len(tr.edges) :
               LET e == tr.edges[k] IN
               /\ e[1] \in 0..(Len(tr.nodes) - 1) /\ e[2] \in 0..(Len(tr.nodes) - 1)
               /\ e[1] # e[2]
               /\ tr.nodes[e[1] + 1] \in {nodes[tr.nodes[e[2] + 1]].c1,
                                          nodes[tr.nodes[e[2] + 1]].c2}
        /\ \A i \in 1..(Len(tr.nodes) - 1) :
               \E k \in 1..Len(tr.edges) :
                   tr.edges[k][1] = i /\ tr.edges[k][2] < i

C8_Witness ==
    /\ AfterTrace
    /\ \E k \in 1..Len(tr.edges) : tr.edges[k][2] > tr.edges[k][1]
    /\ \E k \in 1..Len(tr.edges) : tr.edges[k][2] < tr.edges[k][1]

\* ------------------------------------------------------------- nn: claims
OutputCalls == {"neuron_output", "layer_output", "mlp_output"}

\* C9 as stated: output on an input of the wrong length returns InputLenErr
\* and no node is created before the length check has succeeded; layer and
\* MLP output return that error without creating any node.
C9_NoNodeOnMismatch ==
    /\ (last.op = "neuron_output"
           /\ Len(ret.input) # Len(mlp.layers[last.a][last.b].w)) => ret.err
    /\ (last.op \in OutputCalls /\ ret.err) => ret.made = 0

\* C9 amended: output on an input of the wrong length returns InputLenErr and
\* leaves the graph, the weights and the bias as they were; the one node the
\* call creates is the neuron's zero accumulator leaf, allocated before the
\* length check and dropped on return; layer and MLP output return that error
\* from the first failing neuron having created only that accumulator.
C9_MismatchLeavesGraph ==
    [][/\ (last'.op = "neuron_output"
              /\ Len(ret'.input) # Len(mlp.layers[last'.a][last'.b].w)) => ret'.err
       /\ (last'.op \in OutputCalls /\ ret'.err) =>
              /\ nodes' = nodes
              /\ mlp' = mlp
              /\ ret'.res = <<>>
              /\ ret'.made = 1]_vars

C9_Witness ==
    /\ last.op = "neuron_output"
    /\ ret.err
    /\ Len(ret.input) = 2
    /\ Len(mlp.layers[last.a][last.b].w) = 3
    /\ ret.made = 1

\* input width of layer l of MLP::new(nin, nouts)
InWidth(nin, nouts, l) == IF l = 1 THEN nin ELSE nouts[l - 1]

\* sum over the layers before l of (input width + 1) * (output width)
RECURSIVE ParamsBefore(_, _, _)
ParamsBefore(nin, nouts, l) ==
    IF l <= 1 THEN 0
    ELSE ParamsBefore(nin, nouts, l - 1)
         + (InWidth(nin, nouts, l - 1) + 1) * nouts[l - 1]

\* C10: for MLP::new(nin, nouts) with non-empty nouts, output on an input of
\* length nin succeeds and returns last(nouts) nodes, and parameters() returns
\* the sum over the layers of (input width + 1) * (output width) leaves,
\* layer by layer, neuron by neuron, weights then bias; nin = 3 and
\* nouts = [4, 4, 1] give one output node and 41 parameters.
C10_MLPShape ==
    (mlp.built /\ mlp.nouts # <<>>) =>
        LET nin == mlp.nin
            nouts == mlp.nouts
            ps == MLPParameters(mlp.layers)
        IN /\ (last.op = "mlp_output" /\ Len(ret.input) = nin) =>
                  /\ ~ret.err
                  /\ Len(ret.res) = nouts[Len(nouts)]
           /\ last.op = "parameters" => ret.res = ps
           /\ Len(ps) = ParamsBefore(nin, nouts, Len(nouts) + 1)
           /\ \A j \in 1..Len(ps) : IsLeaf(nodes, ps[j])
           /\ Len(mlp.layers) = Len(nouts)
           /\ \A l \in 1..Len(nouts) :
                  /\ Len(mlp.layers[l]) = nouts[l]
                  /\ \A k \in 1..nouts[l] :
                         LET w == InWidth(nin, nouts, l)
                             off == ParamsBefore(nin, nouts, l) + (k - 1) * (w + 1)
                         IN /\ \A j \in 1..w : ps[off + j] = mlp.layers[l][k].w[j]
                            /\ ps[off + w + 1] = mlp.layers[l][k].b
           /\ (nin = 3 /\ nouts = <<4, 4, 1>>) =>
                  /\ Len(ps) = 41
                  /\ (last.op = "mlp_output" /\ Len(ret.input) = 3) => Len(ret.res) = 1

C10_Witness ==
    /\ mlp.built
    /\ mlp.nin = 3
    /\ mlp.nouts = <<4, 4, 1>>
    /\ last.op = "mlp_output"
    /\ Len(ret.input) = 3
    /\ ~ret.err
    /\ Len(ret.res) = 1
    /\ Len(MLPParameters(mlp.layers)) = 41

\* the weighted sum of a neuron on an input, plus its bias
RECURSIVE WeightedSum(_, _, _, _)
WeightedSum(ns, neuron, input, i) ==
    IF i > Len(neuron.w) THEN ns[neuron.b].data
    ELSE ns[input[i]].data * ns[neuron.w[i]].data
         + WeightedSum(ns, neuron, input, i + 1)

\* C11: for MLP::new(nin, nouts) with one layer or more, the neurons of
\* layer 0 have nin weights and those of layer i+1 as many weights as layer i
\* has neurons; exactly the final layer is linear, its neurons returning the
\* raw weighted sum plus bias, and every earlier layer applies tanh to it.
C11_LayerWiring ==
    (mlp.built /\ Len(mlp.nouts) >= 1) =>
        LET n == Len(mlp.layers) IN
        /\ n = Len(mlp.nouts)
        /\ \A l \in 1..n : \A k \in 1..Len(mlp.layers[l]) :
               LET neuron == mlp.layers[l][k] IN
               /\ Len(neuron.w) = IF l = 1 THEN mlp.nin ELSE Len(mlp.layers[l - 1])
               /\ neuron.nonlin = (l # n)
               /\ (last.op = "neuron_output" /\ last.a = l /\ last.b = k
                      /\ ~ret.err) =>
                      LET out == ret.res[1]
                          sum == WeightedSum(nodes, neuron, ret.input, 1)
                      IN IF l = n
                         THEN nodes[out].op = "ADD" /\ nodes[out].data = sum
                         ELSE /\ nodes[out].op = "TANH"
                              /\ nodes[out].data = TanhF(sum)
                              /\ nodes[nodes[out].c1].op = "ADD"
                              /\ nodes[nodes[out].c1].data = sum
        /\ (last.op = "mlp_output" /\ ~ret.err) =>
               \A j \in 1..Len(ret.res) : nodes[ret.res[j]].op = "ADD"
        /\ (last.op = "layer_output" /\ ~ret.err) =>
               \A j \in 1..Len(ret.res) :
                   nodes[ret.res[j]].op = IF last.a = n THEN "ADD" ELSE "TANH"

\* a two-layer network whose hidden neuron has squashed a sum that the
\* final neuron would have returned raw
C11_Witness ==
    /\ mlp.built
    /\ Len(mlp.nouts) = 2
    /\ last.op = "neuron_output"
    /\ last.a = 1
    /\ ~ret.err
    /\ mlp.layers[1][last.b].nonlin
    /\ Len(mlp.layers[2]) >= 1
    /\ ~mlp.layers[2][1].nonlin
    /\ nodes[ret.res[1]].op = "TANH"
    /\ nodes[ret.res[1]].data # nodes[nodes[ret.res[1]].c1].data

\* ---------------------------------------------------------- frame claims
OperatorCalls == {"new", "add", "add_assign", "sub", "mul", "powi", "tanh"}

\* children, op and exponent of a node
Shape(v) == <<v.c1, v.c2, v.op, v.exp>>

\* the op of node m agrees with its children, which are older nodes
ArityOK(ns, m) ==
    /\ ns[m].c1 \in 0..(m - 1) /\ ns[m].c2 \in 0..(m - 1)
    /\ ns[m].op = "NONE" => ns[m].c1 = 0 /\ ns[m].c2 = 0
    /\ ns[m].op \in {"POWI", "TANH"} => ns[m].c1 # 0 /\ ns[m].c2 = 0
    /\ ns[m].op \in {"ADD", "SUB", "MUL"} => ns[m].c1 # 0 /\ ns[m].c2 # 0

\* C13: every call leaves every existing node its children and op (the graph
\* only grows, each op's arity matches its child count and children are older
\* than their parent); an operator call changes no existing node, set_data(n, v)
\* changes only n.data and no parent's data, backward changes only the grad of
\* nodes reachable from its root, traverse and trace change nothing.
C13_FrameEffects ==
    [][/\ Len(nodes') >= Len(nodes)
       /\ \A m \in Ids(nodes) : Shape(nodes'[m]) = Shape(nodes[m])
       /\ \A m \in Ids(nodes') : ArityOK(nodes', m)
       /\ last'.op \in OperatorCalls =>
              /\ Len(nodes') = Len(nodes) + 1
              /\ SubSeq(nodes', 1, Len(nodes)) = nodes
       /\ last'.op = "set_data" =>
              nodes' = [nodes EXCEPT ![last'.a].data = last'.b]
       /\ last'.op = "backward" =>
              /\ Len(nodes') = Len(nodes)
              /\ \A m \in Ids(nodes) :
                     /\ nodes'[m].data = nodes[m].data
                     /\ m \notin Reach(nodes, last'.a) => nodes'[m].grad = nodes[m].grad
       /\ last'.op \in {"traverse", "trace"} => nodes' = nodes]_vars

\* backward from a leaf has left alone a parent of that leaf which holds a
\* grad from an earlier pass and the data of before a set_data on the leaf
C13_Witness ==
    /\ AfterBackward
    /\ IsLeaf(nodes, last.a)
    /\ \E p \in Ids(nodes) :
           /\ last.a \in {nodes[p].c1, nodes[p].c2}
           /\ nodes[p].grad # 0
           /\ nodes[p].data # Eval(nodes, p)

\* ----------------------------------------------------------- lock claims
\* the nodes whose guard thread t holds
Holding(t) == {n \in Ids(nodes) : mutex[n].owner = t}

\* the guards a thread may keep while it locks: cal_grad keeps the guard on
\* the parent while it locks a child, and a child is never its own parent
MayKeep(t) ==
    IF thr[t].pc \in {"c1", "c2", "c1_again"} THEN {thr[t].scalars[thr[t].ptr]} ELSE {}

\* t and u each wait for a Mutex the other holds
Embrace(t, u) ==
    /\ Waiting(t) /\ mutex[Target(t)].owner = u
    /\ Waiting(u) /\ mutex[Target(u)].owner = t

\* C12: no operation on Scalar holds the guards of two handles that may name
\* the same node: guards on operands and on sibling children are taken and
\* dropped one at a time, so no call blocks or dies on a Mutex its own thread
\* holds, and no two threads wait for each other's Mutex.
C12_OneLockAtATime ==
    /\ \A t \in DOMAIN thr :
           /\ Waiting(t) => Holding(t) \subseteq MayKeep(t)
           /\ thr[t].st \notin {"blocked", "panicked"}
    /\ \A t, u \in DOMAIN thr : t # u => ~Embrace(t, u)

\* every double hold, every call that does not return and every embrace
\* comes from eq or partial_cmp
OnlyCmpKeepsOperand ==
    /\ \A t \in DOMAIN thr :
           /\ (Waiting(t) /\ ~(Holding(t) \subseteq MayKeep(t))) => thr[t].op \in CmpOps
           /\ thr[t].st = "blocked" => thr[t].op \in CmpOps /\ thr[t].a = thr[t].b
           /\ thr[t].st = "panicked" =>
                  \E u \in DOMAIN thr : /\ thr[u].st = "panicked"
                                         /\ thr[u].op \in CmpOps
                                         /\ thr[u].a = thr[u].b
    /\ \A t, u \in DOMAIN thr :
           (t # u /\ Embrace(t, u)) => thr[t].op \in CmpOps \/ thr[u].op \in CmpOps

\* every child is a node that existed before its parent and is still in the arena
TypeOK == \A m \in Ids(nodes) : nodes[m].c1 \in 0..(m - 1) /\ nodes[m].c2 \in 0..(m - 1)
====
